---- MODULE Spec2Model ----
(***************************************************************************)
(* A model of the rsocks client (client.go): the cache-aside List()        *)
(* operation with its bounded pool of probing workers, the Total()         *)
(* accessor, the line parser, and the retrying HTTP helper with its error  *)
(* formatting.                                                             *)
(*                                                                         *)
(* Text is modelled as a sequence of symbols: a symbol is a run of         *)
(* characters that the code never looks into ("h1", "80", "1.1.1.1"), or   *)
(* one of the characters the code acts on (":", "@", "/", " ", "{", "}").  *)
(***************************************************************************)
EXTENDS Integers, Sequences, FiniteSets, TLC

\* ------------------------------------------------------------------ bounds

\* Lines of a raw list.
MaxLines == 3
\* Completed List() calls followed in one behaviour.
MaxCalls == 2
\* Attempts after which the exponential backoff policy gives up (it stands for
\* the policy's elapsed-time ceiling).
MaxAttempts == 3
\* The pool ceiling of the model: the code's NewWgExec(50), scaled down so that
\* a raw list of MaxLines lines can exceed it.
PoolCeil == 2

\* ----------------------------------------------------------- program constants

StatusOK == 200
StatusBadRequest == 400
StatusTooManyRequests == 429

\* ------------------------------------------------------------------- values

Nil == [nil |-> TRUE]
NoErr == [kind |-> "none"]
ErrNotFound == [kind |-> "cachita", err |-> "cache not found"]
ErrExpired == [kind |-> "cachita", err |-> "cache expired"]
ErrBackend == [kind |-> "io", err |-> "cache backend failure"]
ErrPut == [kind |-> "io", err |-> "cache write failure"]
ErrRead == [kind |-> "io", err |-> "body read failure"]
ErrRLimit == [kind |-> "rlimit", err |-> "setrlimit failure"]
ErrNet == [kind |-> "net", err |-> "connection failure or timeout"]
NoEntry == [present |-> FALSE]

Min(a, b) == IF a < b THEN a ELSE b

Last(s) == s[Len(s)]

Front(s) == SubSeq(s, 1, Len(s) - 1)

\* ------------------------------------------------------------ text helpers

\* strings.TrimSpace
WhiteSpace == {" ", "\n", "\r", "\t"}

RECURSIVE TrimLeft(_)
TrimLeft(s) == IF s # <<>> /\ Head(s) \in WhiteSpace THEN TrimLeft(Tail(s)) ELSE s

RECURSIVE TrimRight(_)
TrimRight(s) == IF s # <<>> /\ Last(s) \in WhiteSpace THEN TrimRight(Front(s)) ELSE s

TrimSpace(s) == TrimRight(TrimLeft(s))

\* strings.Split(s, sep): the pieces of s between the separators, in order;
\* a text without separator (the empty text too) is one piece.
RECURSIVE SplitAcc(_, _, _)
SplitAcc(s, sep, cur) ==
    IF s = <<>> THEN <<cur>>
    ELSE IF Head(s) = sep THEN <<cur>> \o SplitAcc(Tail(s), sep, <<>>)
    ELSE SplitAcc(Tail(s), sep, Append(cur, Head(s)))

Split(s, sep) == SplitAcc(s, sep, <<>>)

\* Position of the first occurrence of a symbol, 0 when there is none.
RECURSIVE IndexFrom(_, _, _)
IndexFrom(s, c, i) ==
    IF i > Len(s) THEN 0 ELSE IF s[i] = c THEN i ELSE IndexFrom(s, c, i + 1)

Index(s, c) == IndexFrom(s, c, 1)

\* Position of the last occurrence of a symbol, 0 when there is none.
RECURSIVE LastIndexFrom(_, _, _)
LastIndexFrom(s, c, i) ==
    IF i < 1 THEN 0 ELSE IF s[i] = c THEN i ELSE LastIndexFrom(s, c, i - 1)

LastIndex(s, c) == LastIndexFrom(s, c, Len(s))

\* ---------------------------------------------------------------- net/url

\* The port syntax url.Parse accepts after the host: empty, or digits.
PortSyms == {"80", "81"}

ValidPort(p) == p = <<>> \/ (Len(p) = 1 /\ p[1] \in PortSyms)

\* url.Parse of "http://[userinfo@]host[:port][/path]": the authority is the
\* text up to the first "/", the userinfo is what precedes its last "@", the
\* path is the rest; the URL, or an error for a port that is not a number.
UrlParse(s) ==
    IF s = <<>> \/ Head(s) # "http://"
    THEN [ok |-> FALSE, u |-> Nil]
    ELSE LET rest == Tail(s)
             slash == Index(rest, "/")
             authority == IF slash = 0 THEN rest ELSE SubSeq(rest, 1, slash - 1)
             path == IF slash = 0 THEN <<>> ELSE SubSeq(rest, slash, Len(rest))
             at == LastIndex(authority, "@")
             userinfo == IF at = 0 THEN <<>> ELSE SubSeq(authority, 1, at - 1)
             host == IF at = 0 THEN authority ELSE SubSeq(authority, at + 1, Len(authority))
             colon == LastIndex(host, ":")
             port == IF colon = 0 THEN <<>> ELSE SubSeq(host, colon + 1, Len(host))
         IN IF ValidPort(port)
            THEN [ok |-> TRUE,
                  u |-> [Scheme |-> "http", User |-> userinfo, Host |-> host, Path |-> path]]
            ELSE [ok |-> FALSE, u |-> Nil]

\* (*url.URL).String
UrlString(u) ==
    <<u.Scheme \o "://">>
    \o (IF u.User = <<>> THEN <<>> ELSE u.User \o <<"@">>)
    \o u.Host
    \o u.Path

\* h.ParseUrl: url.Parse with the error dropped.
ParseUrl(s) == UrlParse(s).u

\* ------------------------------------------------------------ HTTP helper

\* http.StatusText for the statuses the model's transports answer with.
StatusText(code) ==
    CASE code = 200 -> "OK"
      [] code = 204 -> "No Content"
      [] code = 404 -> "Not Found"
      [] code = 429 -> "Too Many Requests"
      [] code = 500 -> "Internal Server Error"
      [] OTHER -> ""

\* json.NewDecoder(body).Decode(pl) into a struct with the one field
\* `detail`: a JSON object is written <<"{", key, value, ..., "}">>; anything
\* else (the empty body too) fails to decode.  A decoded object without the
\* key leaves the field at its zero value "".
RECURSIVE JsonField(_, _)
JsonField(kv, key) ==
    IF Len(kv) < 2 THEN ""
    ELSE IF kv[1] = key THEN kv[2]
    ELSE JsonField(SubSeq(kv, 3, Len(kv)), key)

JsonDecode(body) ==
    IF Len(body) >= 2 /\ Head(body) = "{" /\ Last(body) = "}"
       /\ (Len(body) - 2) % 2 = 0
    THEN [ok |-> TRUE, ErrorMessage |-> JsonField(SubSeq(body, 2, Len(body) - 1), "detail")]
    ELSE [ok |-> FALSE, ErrorMessage |-> ""]

\* formatError: the apiError for a response.  e.err starts as "" and is set
\* only in the two branches that follow a successful decode.
formatError(r) ==
    LET pl == JsonDecode(r.body)
        msg == IF ~pl.ok THEN <<>>
               ELSE IF pl.ErrorMessage # "" THEN <<pl.ErrorMessage>>
               ELSE <<"error statusCode code ", r.status, ": ", StatusText(r.status)>>
    IN [kind |-> "api", err |-> msg, statusCode |-> r.status]

\* What a transport answers to one request: a response, or a failure below
\* HTTP (connection refused, timeout, DNS).
NetFail == [net |-> FALSE]

Answer(status, body) == [net |-> TRUE, status |-> status, body |-> body]

\* request: one round trip.
request(a) ==
    IF ~a.net THEN [resp |-> Nil, err |-> ErrNet]
    ELSE IF a.status >= StatusBadRequest THEN [resp |-> Nil, err |-> formatError(a)]
    ELSE [resp |-> a, err |-> NoErr]

\* The operation handed to backoff.Retry reports "try again" for a non-nil
\* response with status >= 429.
TryAgain(r) == r.resp # Nil /\ r.resp.status >= StatusTooManyRequests

\* retryRequest: the transport answers the n-th attempt with the n-th entry
\* of its script (the last entry again once the script is used up);
\* backoff.Retry repeats the operation while it reports "try again" and the
\* policy has not given up; the last attempt's resp and err are returned.
RECURSIVE retryFrom(_, _)
retryFrom(script, n) ==
    LET r == request(script[Min(n, Len(script))])
    IN IF TryAgain(r) /\ n < MaxAttempts
       THEN retryFrom(script, n + 1)
       ELSE [resp |-> r.resp, err |-> r.err, attempts |-> n]

retryRequest(script) == retryFrom(script, 1)

\* ------------------------------------------------------------ line parser

\* h.IsValidIp: the IP literals of the model.
IpLiterals == {"1.1.1.1", "2.2.2.2"}

IsValidIp(ip) == Len(ip) = 1 /\ ip[1] \in IpLiterals

\* Line 192 letting every status below 400 through.
proxyIpAnyStatus(script) ==
    LET r == retryRequest(script)
    IN IF r.err # NoErr THEN [ip |-> <<>>, err |-> r.err]
       ELSE LET ip == TrimSpace(r.resp.body)
            IN IF ~IsValidIp(ip)
               THEN [ip |-> <<>>, err |-> [kind |-> "probe", err |-> <<"invalid IP: ", ip>>]]
               ELSE [ip |-> ip, err |-> NoErr]

\* proxyIp: the probe through the candidate proxy; `script` is what the
\* transport through that proxy answers.
proxyIp(script) ==
    LET r == retryRequest(script)
    IN IF r.err # NoErr THEN [ip |-> <<>>, err |-> r.err]
       ELSE IF r.resp.status # StatusOK
            THEN [ip |-> <<>>, err |-> [kind |-> "probe", err |-> <<"invalid Status Code: ", r.resp.status>>]]
       ELSE LET ip == TrimSpace(r.resp.body)
            IN IF ~IsValidIp(ip)
               THEN [ip |-> <<>>, err |-> [kind |-> "probe", err |-> <<"invalid IP: ", ip>>]]
               ELSE [ip |-> ip, err |-> NoErr]

\* The first half of parseProxyLine, up to url.Parse: the proxy URL text
\* built from the tokens of the line.
proxyUrlText(line) ==
    LET s == Split(TrimSpace(line), ":")
    IN CASE Len(s) = 4 -> [ok |-> TRUE,
                           lu |-> <<"http://">> \o s[3] \o <<":">> \o s[4] \o <<"@">> \o s[1] \o <<":">> \o s[2]]
         [] Len(s) = 2 -> [ok |-> TRUE, lu |-> <<"http://">> \o s[1] \o <<":">> \o s[2]]
         [] OTHER -> [ok |-> FALSE, lu |-> <<>>]

\* parseProxyLine up to the probe: the URL, or the error naming the line.
parseLineUrl(line) ==
    LET t == proxyUrlText(line)
    IN IF ~t.ok
       THEN [u |-> Nil, err |-> [kind |-> "parse", err |-> <<"invalid proxy line ", line>>]]
       ELSE LET p == UrlParse(t.lu)
            IN IF ~p.ok
               THEN [u |-> Nil, err |-> [kind |-> "parse", err |-> <<"parsing line ", line, t.lu>>]]
               ELSE [u |-> p.u, err |-> NoErr]

\* parseProxyLine, whole: (ipStr, u, err) for a line and the answers of the
\* transport through the proxy the line names.
parseProxyLine(line, script) ==
    LET p == parseLineUrl(line)
    IN IF p.err # NoErr THEN [ip |-> <<>>, u |-> Nil, err |-> p.err]
       ELSE LET q == proxyIp(script)
            IN IF q.err # NoErr
               THEN [ip |-> <<>>, u |-> Nil,
                     err |-> [kind |-> "probe", err |-> <<q.err, "getting IP for line ", line>>]]
               ELSE [ip |-> q.ip, u |-> p.u, err |-> NoErr]

\* ------------------------------------------------------------------ inputs

\* The lines a raw list is made of: blank, one token, three tokens, host:port
\* (followed by white space), host:port:user:pass, host:port whose port is
\* no number, host:port:user:pass whose password holds a "/", and white
\* space only.
Blank == <<>>

Spaces == <<" ">>

Junk == <<"junk">>

ThreeTok == <<"h1", ":", "80", ":", "u">>

HostPort == <<"h1", ":", "80", " ">>

HostPortUserPass == <<"h2", ":", "81", ":", "u", ":", "pw">>

BadPort == <<"h3", ":", "xx">>

SlashPass == <<"h2", ":", "81", ":", "u", ":", "80", "/", "x">>

\* The text of a raw list: its lines, each ended by a newline.
RECURSIVE RawText(_)
RawText(lines) ==
    IF lines = <<>> THEN <<>> ELSE Head(lines) \o <<"\n">> \o RawText(Tail(lines))

\* The raw lists the source serves: the first lines, up to MaxLines, of four
\* long lists.
MasterLists ==
    { <<HostPort, HostPortUserPass, HostPort, Junk, HostPortUserPass>>,
      <<Junk, HostPort, HostPortUserPass, BadPort, HostPort>>,
      <<Blank, BadPort, ThreeTok, HostPort, Blank>>,
      <<SlashPass, Blank, Spaces, Junk, Blank>> }

RawLists == {RawText(SubSeq(m, 1, Min(n, Len(m)))) : m \in MasterLists, n \in 0..MaxLines}

\* bufio.Scanner with the default split function: the lines of the text, without a
\* final empty line.
ScanLines(b) ==
    IF b = <<>> THEN <<>>
    ELSE LET parts == Split(b, "\n")
         IN IF Last(parts) = <<>> THEN Front(parts) ELSE parts

JsonDetail == <<"{", "detail", "not found", "}">>

\* A source that answers 429 twice, then 200 with a list.
RetryScenario ==
    <<Answer(429, <<>>), Answer(429, <<>>), Answer(200, RawText(<<HostPort>>))>>

\* What the transport of the list source may answer to the attempts of one fetch.
FetchScripts ==
    {<<Answer(200, raw)>> : raw \in RawLists}
    \cup { <<NetFail>>,
           RetryScenario,
           <<Answer(404, JsonDetail)>>,
           <<Answer(404, <<>>)>>,
           <<Answer(404, <<"{", "}">>)>>,
           <<Answer(404, <<"{", "detail", "", "}">>)>>,
           <<Answer(500, <<"<html>">>)>> }

\* What the transport through a candidate proxy may answer to the attempts of
\* one probe.
ProbeScripts ==
    { <<NetFail>>,
      <<Answer(200, <<"1.1.1.1">>)>>,
      <<Answer(200, <<"2.2.2.2", "\n">>)>>,
      <<Answer(200, <<"blocked">>)>>,
      <<Answer(204, <<"1.1.1.1">>)>>,
      <<Answer(429, <<>>), Answer(200, <<"1.1.1.1">>)>>,
      <<Answer(404, JsonDetail)>> }

\* ------------------------------------------------------------------- state

VARIABLES
    cache,      \* the entry of the file cache under the key of the list URL
    proxies,    \* c.proxies: observed IP -> proxy URL
    mu,         \* c.proxiesMu: 0 free, -1 held by Total(), i > 0 held by worker i
    pc,         \* where the List() call is
    toLoad,     \* getListCache: the entries of l still to range over
    raw,        \* List: b, the body of the list response
    pos,        \* List: lines the scanner has delivered
    l,          \* List: the loop variable l
    wk,         \* the units of work given to the pool, in dispatch order; resp is
                \* the response that a probe that succeeded ended on
    ret,        \* what the List() call returned, once it has
    calls,      \* List() calls begun
    obs,        \* what the current List() call has done so far
    totalPc,    \* where a Total() call is
    totalRet    \* the value a Total() call is returning

vars == <<cache, proxies, mu, pc, toLoad, raw, pos, l, wk, ret, calls, obs, totalPc, totalRet>>

EmptyMap == <<>>

\* m[k] = v of a Go map.
MapPut(m, k, v) == [x \in DOMAIN m \cup {k} |-> IF x = k THEN v ELSE m[x]]

MapDel(m, k) == [x \in DOMAIN m \ {k} |-> m[x]]

MapLen(m) == Cardinality(DOMAIN m)

NoObs ==
    [sig |-> NoErr, got |-> EmptyMap, hit |-> FALSE, fetched |-> FALSE, script |-> <<>>,
     attempts |-> 0, rlimit |-> "none", probes |-> 0, puts |-> 0, wrote |-> FALSE,
     reordered |-> FALSE, before |-> EmptyMap]

\* No List() call has returned yet.
NoRet == [m |-> Nil, err |-> NoErr]

\* NewClient: a client with an empty map; the file cache is what earlier
\* clients left under /tmp/rsocks.
Init ==
    /\ cache = NoEntry
    /\ proxies = EmptyMap
    /\ mu = 0
    /\ pc = "idle"
    /\ toLoad = EmptyMap
    /\ raw = <<>>
    /\ pos = 0
    /\ l = <<>>
    /\ wk = <<>>
    /\ ret = NoRet
    /\ calls = 0
    /\ obs = NoObs
    /\ totalPc = "idle"
    /\ totalRet = 0

\* ------------------------------------------------------------ cache store

\* cachita.IsErrorOk
IsErrorOk(err) == err = ErrNotFound \/ err = ErrExpired

\* listCache.Get(k, &l): a live entry is decoded into l; no entry and an entry
\* past its ttl give the two "ok" errors and leave l empty (the expired entry
\* is deleted); a failure of the store gives another error.
CacheGet(c, fail) ==
    IF fail THEN [l |-> EmptyMap, err |-> ErrBackend, cache |-> c]
    ELSE IF ~c.present THEN [l |-> EmptyMap, err |-> ErrNotFound, cache |-> c]
    ELSE IF c.expired THEN [l |-> EmptyMap, err |-> ErrExpired, cache |-> NoEntry]
    ELSE [l |-> c.data, err |-> NoErr, cache |-> c]

\* getListCache, lines 119-123 and 129: the error it returns.
getListCacheErr(err) == IF err # NoErr /\ ~IsErrorOk(err) THEN err ELSE NoErr

\* The check of line 52 with its second test inverted.
IsFatalCacheErrInverted(err) == err # NoErr /\ IsErrorOk(err)

\* List, line 52: the cache error that ends the call.
IsFatalCacheErr(err) == err # NoErr /\ ~IsErrorOk(err)

\* putListCache, lines 133-136: the serialised form of the map.
Serialise(m) == [ip \in DOMAIN m |-> UrlString(m[ip])]

\* --------------------------------------------------------------- List()

\* Units of work that hold a slot of the pool.
Running == {i \in DOMAIN wk : wk[i].pc # "done"}

\* Probes in flight: workers inside the request of proxyIp.
InFlight == {i \in DOMAIN wk : wk[i].pc = "probe"}

\* List, lines 49-54 with getListCache, lines 119-123: the call begins with
\* the read of the cache; a fatal error of the store ends it.
ListCall ==
    /\ pc \in {"idle", "returned"}
    /\ calls < MaxCalls
    /\ \E fail \in BOOLEAN :
        LET g == CacheGet(cache, fail)
            err == getListCacheErr(g.err)
        IN /\ cache' = g.cache
           /\ calls' = calls + 1
           /\ wk' = <<>>
           /\ raw' = <<>>
           /\ pos' = 0
           /\ l' = <<>>
           /\ obs' = [NoObs EXCEPT !.sig = g.err, !.got = g.l, !.before = proxies,
                                   !.hit = (g.err = NoErr)]
           /\ IF IsFatalCacheErr(err)
              THEN /\ pc' = "returned"
                   /\ ret' = [m |-> Nil, err |-> err]
                   /\ toLoad' = EmptyMap
              ELSE /\ pc' = "load"
                   /\ ret' = NoRet
                   /\ toLoad' = g.l
    /\ UNCHANGED <<proxies, mu, totalPc, totalRet>>

\* getListCache, lines 124-128: one turn of the range over l; the write to
\* c.proxies is made without the mutex.
ListLoadEntry ==
    /\ pc = "load"
    /\ \E ip \in DOMAIN toLoad :
        /\ proxies' = MapPut(proxies, ip, ParseUrl(toLoad[ip]))
        /\ toLoad' = MapDel(toLoad, ip)
    /\ UNCHANGED <<cache, mu, pc, raw, pos, l, wk, ret, calls, obs, totalPc, totalRet>>

\* List, lines 55-57: a non-empty map is returned as it is.
ListCheck ==
    /\ pc = "load"
    /\ DOMAIN toLoad = {}
    /\ IF MapLen(proxies) > 0
       THEN /\ pc' = "returned"
            /\ ret' = [m |-> proxies, err |-> NoErr]
       ELSE /\ pc' = "fetch"
            /\ ret' = ret
    /\ UNCHANGED <<cache, proxies, mu, toLoad, raw, pos, l, wk, calls, obs, totalPc, totalRet>>

\* Lines 59-67 going on with an empty raw list after a fetch that failed.
ListFetchIgnoresError ==
    /\ pc = "fetch"
    /\ \E script \in FetchScripts, readOk \in BOOLEAN :
        LET r == retryRequest(script)
        IN /\ obs' = [obs EXCEPT !.fetched = TRUE, !.script = script, !.attempts = r.attempts]
           /\ pc' = "rlimit"
           /\ ret' = ret
           /\ raw' = IF r.err # NoErr \/ ~readOk THEN <<>> ELSE r.resp.body
    /\ UNCHANGED <<cache, proxies, mu, toLoad, pos, l, wk, calls, totalPc, totalRet>>

\* List, lines 59-67: the fetch of the raw list and the read of its body.
ListFetch ==
    /\ pc = "fetch"
    /\ \E script \in FetchScripts, readOk \in BOOLEAN :
        LET r == retryRequest(script)
        IN /\ obs' = [obs EXCEPT !.fetched = TRUE, !.script = script, !.attempts = r.attempts]
           /\ IF r.err # NoErr
              THEN /\ pc' = "returned"
                   /\ ret' = [m |-> Nil, err |-> r.err]
                   /\ raw' = raw
              ELSE IF ~readOk
              THEN /\ pc' = "returned"
                   /\ ret' = [m |-> Nil, err |-> ErrRead]
                   /\ raw' = raw
              ELSE /\ pc' = "rlimit"
                   /\ ret' = ret
                   /\ raw' = r.resp.body
    /\ UNCHANGED <<cache, proxies, mu, toLoad, pos, l, wk, calls, totalPc, totalRet>>

\* List, lines 71-72: h.LiftRLimits, and h.PanicOnError on its error.
ListLiftRLimits ==
    /\ pc = "rlimit"
    /\ \E ok \in BOOLEAN :
        IF ok
        THEN /\ pc' = "scan"
             /\ obs' = [obs EXCEPT !.rlimit = "raised"]
        ELSE /\ pc' = "panicked"
             /\ obs' = [obs EXCEPT !.rlimit = "failed"]
    /\ UNCHANGED <<cache, proxies, mu, toLoad, raw, pos, l, wk, ret, calls, totalPc, totalRet>>

\* List, lines 76-80: the scanner delivers a blank line, which is skipped.
ListSkipBlank ==
    /\ pc = "scan"
    /\ pos < Len(ScanLines(raw))
    /\ ScanLines(raw)[pos + 1] = <<>>
    /\ l' = ScanLines(raw)[pos + 1]
    /\ pos' = pos + 1
    /\ UNCHANGED <<cache, proxies, mu, pc, toLoad, raw, wk, ret, calls, obs, totalPc, totalRet>>

\* The dispatch of lines 76-91 with a goroutine per line and no pool.
ListRunUnbounded ==
    /\ pc = "scan"
    /\ pos < Len(ScanLines(raw))
    /\ ScanLines(raw)[pos + 1] # <<>>
    /\ l' = ScanLines(raw)[pos + 1]
    /\ pos' = pos + 1
    /\ wk' = Append(wk, [pc |-> "parse", line |-> l', ip |-> <<>>, u |-> Nil, resp |-> Nil])
    /\ UNCHANGED <<cache, proxies, mu, pc, toLoad, raw, ret, calls, obs, totalPc, totalRet>>

\* List, lines 76-91: the scanner delivers a line, and wg.Run hands it to the
\* pool; Run waits for a free slot of the pool.
ListRun ==
    /\ pc = "scan"
    /\ pos < Len(ScanLines(raw))
    /\ ScanLines(raw)[pos + 1] # <<>>
    /\ Cardinality(Running) < PoolCeil
    /\ l' = ScanLines(raw)[pos + 1]
    /\ pos' = pos + 1
    /\ wk' = Append(wk, [pc |-> "parse", line |-> l', ip |-> <<>>, u |-> Nil, resp |-> Nil])
    /\ UNCHANGED <<cache, proxies, mu, pc, toLoad, raw, ret, calls, obs, totalPc, totalRet>>

\* List, line 76: the scanner is at the end of the text.
ListScanEnd ==
    /\ pc = "scan"
    /\ pos = Len(ScanLines(raw))
    /\ pc' = "wait"
    /\ UNCHANGED <<cache, proxies, mu, toLoad, raw, pos, l, wk, ret, calls, obs, totalPc, totalRet>>

\* Lines 81-83 with a worker that reads the loop variable l of line 75 instead
\* of its parameter.
WorkerParseShared(i) ==
    /\ wk[i].pc = "parse"
    /\ LET p == parseLineUrl(l)
       IN wk' = [wk EXCEPT ![i] = IF p.err # NoErr
                                  THEN [@ EXCEPT !.pc = "done", !.line = l]
                                  ELSE [@ EXCEPT !.pc = "probe", !.line = l, !.u = p.u]]
    /\ obs' = [obs EXCEPT !.probes = @ + (IF wk'[i].pc = "probe" THEN 1 ELSE 0)]
    /\ UNCHANGED <<cache, proxies, mu, pc, toLoad, raw, pos, l, ret, calls, totalPc, totalRet>>

\* Lines 81-83 taking the mutex before the line is parsed and probed.
WorkerParseLocked(i) ==
    /\ wk[i].pc = "parse"
    /\ mu = 0
    /\ mu' = i
    /\ LET p == parseLineUrl(wk[i].line)
       IN wk' = [wk EXCEPT ![i] = IF p.err # NoErr
                                  THEN [@ EXCEPT !.pc = "done"]
                                  ELSE [@ EXCEPT !.pc = "probe", !.u = p.u]]
    /\ obs' = [obs EXCEPT !.probes = @ + (IF wk'[i].pc = "probe" THEN 1 ELSE 0)]
    /\ UNCHANGED <<cache, proxies, pc, toLoad, raw, pos, l, ret, calls, totalPc, totalRet>>

\* List, lines 82-87 with parseProxyLine, lines 147-162: the worker builds the
\* proxy URL of its line, or logs the error and ends.
WorkerParse(i) ==
    /\ wk[i].pc = "parse"
    /\ LET p == parseLineUrl(wk[i].line)
       IN wk' = [wk EXCEPT ![i] = IF p.err # NoErr
                                  THEN [@ EXCEPT !.pc = "done"]
                                  ELSE [@ EXCEPT !.pc = "probe", !.u = p.u]]
    /\ obs' = [obs EXCEPT !.probes = @ + (IF wk'[i].pc = "probe" THEN 1 ELSE 0)]
    /\ UNCHANGED <<cache, proxies, mu, pc, toLoad, raw, pos, l, ret, calls, totalPc, totalRet>>

\* List, lines 83-87 with parseProxyLine, lines 163-168, and proxyIp: the probe
\* returns; the worker has the observed IP, or logs the error and ends.
WorkerProbe(i) ==
    /\ wk[i].pc = "probe"
    /\ \E script \in ProbeScripts :
        LET r == parseProxyLine(wk[i].line, script)
        IN wk' = [wk EXCEPT ![i] = IF r.err # NoErr
                                   THEN [@ EXCEPT !.pc = "done", !.u = Nil]
                                   ELSE [@ EXCEPT !.pc = "lock", !.ip = r.ip, !.u = r.u,
                                                  !.resp = retryRequest(script).resp]]
    /\ UNCHANGED <<cache, proxies, mu, pc, toLoad, raw, pos, l, ret, calls, obs, totalPc, totalRet>>

\* List, line 88
WorkerLock(i) ==
    /\ wk[i].pc = "lock"
    /\ mu = 0
    /\ mu' = i
    /\ wk' = [wk EXCEPT ![i].pc = "insert"]
    /\ UNCHANGED <<cache, proxies, pc, toLoad, raw, pos, l, ret, calls, obs, totalPc, totalRet>>

\* Worker i is at its insert while a unit of work dispatched before it still
\* waits for the mutex with the IP it observed.
InsertsBefore(i) == \E k \in DOMAIN wk : k < i /\ wk[k].pc = "lock"

\* Line 89 replacing the map by a map of the one entry.
WorkerInsertAlone(i) ==
    /\ wk[i].pc = "insert"
    /\ proxies' = MapPut(EmptyMap, wk[i].ip, wk[i].u)
    /\ mu' = 0
    /\ wk' = [wk EXCEPT ![i].pc = "done"]
    /\ obs' = [obs EXCEPT !.reordered = @ \/ InsertsBefore(i)]
    /\ UNCHANGED <<cache, pc, toLoad, raw, pos, l, ret, calls, totalPc, totalRet>>

\* Line 89 keeping the entry that an IP already has.
WorkerInsertIfAbsent(i) ==
    /\ wk[i].pc = "insert"
    /\ proxies' = IF wk[i].ip \in DOMAIN proxies THEN proxies ELSE MapPut(proxies, wk[i].ip, wk[i].u)
    /\ mu' = 0
    /\ wk' = [wk EXCEPT ![i].pc = "done"]
    /\ obs' = [obs EXCEPT !.reordered = @ \/ InsertsBefore(i)]
    /\ UNCHANGED <<cache, pc, toLoad, raw, pos, l, ret, calls, totalPc, totalRet>>

\* Line 89 inserting only into a map that nothing was inserted into yet.
WorkerInsertFirstOnly(i) ==
    /\ wk[i].pc = "insert"
    /\ proxies' = IF MapLen(proxies) = 0 THEN MapPut(proxies, wk[i].ip, wk[i].u) ELSE proxies
    /\ mu' = 0
    /\ wk' = [wk EXCEPT ![i].pc = "done"]
    /\ obs' = [obs EXCEPT !.reordered = @ \/ InsertsBefore(i)]
    /\ UNCHANGED <<cache, pc, toLoad, raw, pos, l, ret, calls, totalPc, totalRet>>

\* List, lines 89-90: the insert under the mutex and the Unlock; the unit of
\* work ends, which frees its slot of the pool.
WorkerInsert(i) ==
    /\ wk[i].pc = "insert"
    /\ proxies' = MapPut(proxies, wk[i].ip, wk[i].u)
    /\ mu' = 0
    /\ wk' = [wk EXCEPT ![i].pc = "done"]
    /\ obs' = [obs EXCEPT !.reordered = @ \/ InsertsBefore(i)]
    /\ UNCHANGED <<cache, pc, toLoad, raw, pos, l, ret, calls, totalPc, totalRet>>

\* Line 94 returning as soon as the scan loop has ended.
ListWaitNoWait ==
    /\ pc = "wait"
    /\ pc' = "put"
    /\ UNCHANGED <<cache, proxies, mu, toLoad, raw, pos, l, wk, ret, calls, obs, totalPc, totalRet>>

\* List, line 94: wg.Wait returns when every unit of work has ended.
ListWait ==
    /\ pc = "wait"
    /\ Running = {}
    /\ pc' = "put"
    /\ UNCHANGED <<cache, proxies, mu, toLoad, raw, pos, l, wk, ret, calls, obs, totalPc, totalRet>>

\* Lines 96-99 leaving the cache alone when the map is empty.
ListPutSkipsEmpty ==
    /\ pc = "put"
    /\ \E ok \in BOOLEAN :
        IF MapLen(proxies) = 0
        THEN /\ cache' = cache
             /\ ret' = [m |-> proxies, err |-> NoErr]
             /\ obs' = obs
        ELSE IF ok
        THEN /\ cache' = [present |-> TRUE, data |-> Serialise(proxies), expired |-> FALSE]
             /\ ret' = [m |-> proxies, err |-> NoErr]
             /\ obs' = [obs EXCEPT !.puts = @ + 1, !.wrote = TRUE]
        ELSE /\ cache' = cache
             /\ ret' = [m |-> Nil, err |-> ErrPut]
             /\ obs' = [obs EXCEPT !.puts = @ + 1]
    /\ pc' = "returned"
    /\ UNCHANGED <<proxies, mu, toLoad, raw, pos, l, wk, calls, totalPc, totalRet>>

\* List, lines 96-101 with putListCache: the map is written to the cache and
\* returned; a failure of the write is returned instead.
ListPut ==
    /\ pc = "put"
    /\ \E ok \in BOOLEAN :
        IF ok
        THEN /\ cache' = [present |-> TRUE, data |-> Serialise(proxies), expired |-> FALSE]
             /\ ret' = [m |-> proxies, err |-> NoErr]
             /\ obs' = [obs EXCEPT !.puts = @ + 1, !.wrote = TRUE]
        ELSE /\ cache' = cache
             /\ ret' = [m |-> Nil, err |-> ErrPut]
             /\ obs' = [obs EXCEPT !.puts = @ + 1]
    /\ pc' = "returned"
    /\ UNCHANGED <<proxies, mu, toLoad, raw, pos, l, wk, calls, totalPc, totalRet>>

\* -------------------------------------------------------------- Total()

\* Total, line 113
TotalLock ==
    /\ totalPc = "idle"
    /\ pc # "panicked"
    /\ mu = 0
    /\ mu' = -1
    /\ totalPc' = "locked"
    /\ UNCHANGED <<cache, proxies, pc, toLoad, raw, pos, l, wk, ret, calls, obs, totalRet>>

\* Lines 114-115 counting the lines given to the pool instead of the entries.
TotalReadDispatched ==
    /\ totalPc = "locked"
    /\ totalRet' = Len(wk)
    /\ mu' = 0
    /\ totalPc' = "return"
    /\ UNCHANGED <<cache, proxies, pc, toLoad, raw, pos, l, wk, ret, calls, obs>>

\* Total, lines 114-115: the length is read and the deferred Unlock runs.
TotalRead ==
    /\ totalPc = "locked"
    /\ totalRet' = MapLen(proxies)
    /\ mu' = 0
    /\ totalPc' = "return"
    /\ UNCHANGED <<cache, proxies, pc, toLoad, raw, pos, l, wk, ret, calls, obs>>

\* Total, line 116: the caller takes the value.
TotalReturn ==
    /\ totalPc = "return"
    /\ totalPc' = "idle"
    /\ totalRet' = 0
    /\ UNCHANGED <<cache, proxies, mu, pc, toLoad, raw, pos, l, wk, ret, calls, obs>>

\* ---------------------------------------------------------- environment

\* NewClient, lines 37-47: another client for the same list URL (in this
\* process once List() has returned, or in the next process); the file cache
\* stays.
NewClient ==
    /\ pc \in {"returned", "panicked"}
    /\ totalPc = "idle"
    /\ proxies' = EmptyMap
    /\ mu' = 0
    /\ pc' = "idle"
    /\ toLoad' = EmptyMap
    /\ raw' = <<>>
    /\ pos' = 0
    /\ l' = <<>>
    /\ wk' = <<>>
    /\ ret' = NoRet
    /\ obs' = NoObs
    /\ UNCHANGED <<cache, calls, totalPc, totalRet>>

\* NewClient, line 42: time passes between two calls and the cache entry
\* outlives its ttl of 24 hours.
CacheExpire ==
    /\ pc \in {"idle", "returned"}
    /\ cache.present
    /\ ~cache.expired
    /\ cache' = [cache EXCEPT !.expired = TRUE]
    /\ UNCHANGED <<proxies, mu, pc, toLoad, raw, pos, l, wk, ret, calls, obs, totalPc, totalRet>>

Next ==
    \/ ListCall
    \/ ListLoadEntry
    \/ ListCheck
    \/ ListFetch
    \/ ListLiftRLimits
    \/ ListSkipBlank
    \/ ListRun
    \/ ListScanEnd
    \/ \E i \in DOMAIN wk : WorkerParse(i)
    \/ \E i \in DOMAIN wk : WorkerProbe(i)
    \/ \E i \in DOMAIN wk : WorkerLock(i)
    \/ \E i \in DOMAIN wk : WorkerInsert(i)
    \/ ListWait
    \/ ListPut
    \/ TotalLock
    \/ TotalRead
    \/ TotalReturn
    \/ NewClient
    \/ CacheExpire

Spec == Init /\ [][Next]_vars

\* One batch, taken from the moment the first call of List() on a new client
\* has fetched a raw list (line 67): the cache had no entry, the map is empty.
BatchInit ==
    /\ raw \in RawLists
    /\ cache = NoEntry
    /\ proxies = EmptyMap
    /\ mu = 0
    /\ pc = "rlimit"
    /\ toLoad = EmptyMap
    /\ pos = 0
    /\ l = <<>>
    /\ wk = <<>>
    /\ ret = NoRet
    /\ calls = 1
    /\ obs = [NoObs EXCEPT !.sig = ErrNotFound, !.fetched = TRUE,
                           !.script = <<Answer(StatusOK, raw)>>, !.attempts = 1]
    /\ totalPc = "idle"
    /\ totalRet = 0

\* The steps of the batch, and Total() called beside it.
BatchNext ==
    \/ ListLiftRLimits
    \/ ListSkipBlank
    \/ ListRun
    \/ ListScanEnd
    \/ \E i \in DOMAIN wk : WorkerParse(i)
    \/ \E i \in DOMAIN wk : WorkerProbe(i)
    \/ \E i \in DOMAIN wk : WorkerLock(i)
    \/ \E i \in DOMAIN wk : WorkerInsert(i)
    \/ ListWait
    \/ ListPut
    \/ TotalLock
    \/ TotalRead
    \/ TotalReturn

\* What the scheduling gives: the goroutine in List() takes its next step when
\* it can (the pool hands out a slot that is free, Wait returns once no unit
\* is running); no worker stays in its parse or in its probe for ever (the
\* probe returns, at its timeout of line 180 at the latest); a worker waiting
\* for the mutex gets it although Total() may take it again and again
\* (sync.Mutex hands over to a starving waiter), and makes its insert once it
\* holds the mutex; Total() releases the mutex it holds. Calls of Total() are
\* up to the caller. WorkerParse(i) and WorkerProbe(i) are enabled exactly
\* while worker i is at its parse or its probe and take it away from there,
\* so that their weak fairness is written as the state it amounts to.
Fairness ==
    /\ WF_vars(ListLiftRLimits)
    /\ WF_vars(ListSkipBlank)
    /\ WF_vars(ListRun)
    /\ WF_vars(ListScanEnd)
    /\ WF_vars(ListWait)
    /\ WF_vars(ListPut)
    /\ WF_vars(TotalRead)
    /\ \A i \in 1..MaxLines :
        /\ []<>~(i \in DOMAIN wk /\ wk[i].pc = "parse")
        /\ []<>~(i \in DOMAIN wk /\ wk[i].pc = "probe")
        /\ SF_vars(i \in DOMAIN wk /\ WorkerLock(i))
        /\ WF_vars(i \in DOMAIN wk /\ WorkerInsert(i))

FairSpec == BatchInit /\ [][BatchNext]_vars /\ Fairness

\* ------------------------------------------------------------ properties

\* The IPs observed by the probes of the current call that succeeded.
OkIps == {wk[i].ip : i \in {j \in DOMAIN wk : wk[j].ip # <<>>}}

\* The size of the result of the last List() call; an error comes with no map.
RetSize == IF ret.m = Nil THEN 0 ELSE MapLen(ret.m)

\* The answer the fetch of the current call ended on.
LastAnswer == obs.script[Min(obs.attempts, Len(obs.script))]

\* C1: once the lines have been dispatched, List() returns no error but that
\* of the cache write, whatever the lines and their probes did, and the map it
\* returns holds exactly the IPs observed by the successful probes, one entry
\* each.
C1_PartialFailure ==
    (pc = "returned" /\ obs.rlimit = "raised") =>
        /\ ret.err \in {NoErr, ErrPut}
        /\ obs.wrote => ret.err = NoErr
        /\ ret.err = NoErr =>
            /\ DOMAIN ret.m = OkIps
            /\ MapLen(ret.m) = Cardinality(OkIps)

\* A call returned without error after a malformed line, a failed probe and a
\* successful probe.
C1_Witness ==
    /\ pc = "returned"
    /\ obs.wrote
    /\ ret.err = NoErr
    /\ MapLen(ret.m) = 1
    /\ \E i, j, k \in DOMAIN wk :
        /\ parseLineUrl(wk[i].line).err # NoErr
        /\ parseLineUrl(wk[j].line).err = NoErr /\ wk[j].pc = "done" /\ wk[j].ip = <<>>
        /\ wk[k].pc = "done" /\ wk[k].ip # <<>>

\* C2: the fetch ends on an answer below 429 unless the backoff policy gave
\* up, and a source answering 429, 429, 200 is fetched in three attempts
\* without an error of List().
C2_RetryOn429 ==
    obs.fetched =>
        /\ LastAnswer.net =>
            (LastAnswer.status < StatusTooManyRequests \/ obs.attempts = MaxAttempts)
        /\ obs.script = RetryScenario =>
            (obs.attempts = 3 /\ ~(pc = "returned" /\ ret.err.kind = "api"))

\* C3: the probes in flight never exceed the ceiling of the pool.
C3_BoundedProbes == Cardinality(InFlight) <= PoolCeil

\* As many probes in flight as the pool allows while a line waits for a slot.
C3_Witness ==
    /\ Cardinality(InFlight) = PoolCeil
    /\ pc = "scan"
    /\ pos < Len(ScanLines(raw))
    /\ ScanLines(raw)[pos + 1] # <<>>

\* A Total() call reads the length in this step.
TotalReads == totalPc = "locked" /\ totalPc' = "return"

\* C4, as claimed: a Total() that returns after List() has returned gives the
\* size of the result of that List() call, 0 for a call that returned an error.
C4_TotalIsLastResultSize ==
    [][(TotalReads /\ pc = "returned") => totalRet' = RetSize]_vars

\* C4, amended: a Total() that returns after List() has returned without error
\* gives the size of the map that call returned.
C4_TotalIsReturnedMapSize ==
    [][(TotalReads /\ pc = "returned" /\ ret.err = NoErr) => totalRet' = MapLen(ret.m)]_vars

\* Total() has counted the two entries that the last List() returned.
C4_Witness ==
    /\ pc = "returned"
    /\ ret.err = NoErr
    /\ MapLen(ret.m) = 2
    /\ totalPc = "return"
    /\ totalRet = 2

\* C5: while Total() holds the mutex for its read, no write to the map is
\* pending outside the mutex: the load of the cached entries is not under way
\* and a worker at its insert holds the mutex.
C5_TotalExcludesMapWrites ==
    /\ totalPc = "locked" => ~(pc = "load" /\ DOMAIN toLoad # {})
    /\ \A i \in DOMAIN wk : wk[i].pc = "insert" => mu = i

\* C6: a List() on a new client that finds a live cache entry issues no fetch
\* and returns the keys of the entry with the endpoints its texts stand for.
C6_CacheRoundTrip ==
    (obs.hit /\ obs.before = EmptyMap) =>
        /\ ~obs.fetched
        /\ pc = "returned" =>
            /\ ret.err = NoErr
            /\ DOMAIN ret.m = DOMAIN obs.got
            /\ \A ip \in DOMAIN obs.got : UrlString(ret.m[ip]) = obs.got[ip]

\* C7: a call whose cache read delivered an entry fetches nothing, probes
\* nothing, writes nothing and returns the entry's endpoints; a call that
\* fetches had a miss or an expired entry.
C7_CachedDataSkipsFetch ==
    /\ obs.hit =>
        /\ ~obs.fetched /\ obs.probes = 0 /\ ~obs.wrote
        /\ pc = "returned" =>
            \A ip \in DOMAIN obs.got : ip \in DOMAIN ret.m /\ ret.m[ip] = ParseUrl(obs.got[ip])
    /\ obs.fetched => obs.sig \in {ErrNotFound, ErrExpired}

\* C8: a call whose cache read failed in the store has returned that error
\* and no map, without fetch, dispatch, probe or cache write, and with the map
\* of the client as it was.
C8_CacheErrorAborts ==
    obs.sig = ErrBackend =>
        /\ pc = "returned"
        /\ ret = [m |-> Nil, err |-> ErrBackend]
        /\ ~obs.fetched
        /\ wk = <<>>
        /\ obs.probes = 0
        /\ ~obs.wrote
        /\ proxies = obs.before

\* The cache read failed on a client that holds entries.
C8_Witness ==
    /\ obs.sig = ErrBackend
    /\ pc = "returned"
    /\ MapLen(proxies) > 0

\* C9: a call whose raise of the resource limits failed has returned that
\* error and no map, without dispatch, probe or cache write.
C9_RLimitErrorReturned ==
    obs.rlimit = "failed" =>
        /\ pc = "returned"
        /\ ret = [m |-> Nil, err |-> ErrRLimit]
        /\ wk = <<>>
        /\ obs.probes = 0
        /\ ~obs.wrote

\* The message the error of a response is to carry: its detail field when
\* there is one that is not empty, the status text otherwise.
ExpectedMessage(a) ==
    IF JsonDecode(a.body).ok /\ JsonDecode(a.body).ErrorMessage # ""
    THEN <<JsonDecode(a.body).ErrorMessage>>
    ELSE <<"error statusCode code ", a.status, ": ", StatusText(a.status)>>

\* C10: the error List() returns for a list response of status >= 400 carries
\* that status and the detail field of the body, or the status text when the
\* body has no such field, is empty or is no JSON.
C10_ErrorMessage ==
    (pc = "returned" /\ obs.fetched /\ ret.err.kind = "api") =>
        /\ LastAnswer.status >= StatusBadRequest
        /\ ret.err.statusCode = LastAnswer.status
        /\ ret.err.err = ExpectedMessage(LastAnswer)

\* The IPs that the responses of the successful probes of the current call
\* hold, whatever the order the probes ended in.
ProbedIps == {TrimSpace(wk[i].resp.body) : i \in {j \in DOMAIN wk : wk[j].resp # Nil}}

\* C11: once every unit of work of a call has finished, the keys of the map
\* are the IPs that the lines' successful probes were answered with: they
\* depend on the raw list and on the outcome of each line's probe only, and
\* not on the order in which the workers reached their insert.
C11_KeysOrderIndependent ==
    (pc \in {"put", "returned"} /\ obs.rlimit = "raised") =>
        DOMAIN proxies = ProbedIps

\* A call ended with two keys after a later line's worker had inserted while
\* the worker of an earlier line was still waiting for the mutex.
C11_Witness ==
    /\ pc = "returned"
    /\ obs.rlimit = "raised"
    /\ obs.reordered
    /\ ret.err = NoErr
    /\ Cardinality(DOMAIN proxies) = 2

\* Line 78: a line that the scan loop does not skip.
NonBlank(line) == line # <<>>

\* C12: on the fetch path List() is past wg.Wait only when every unit of work
\* it dispatched has ended, with or without an entry: no worker is parsing,
\* probing, waiting for the mutex or inserting when List() writes the cache
\* or has returned, and every line that is not blank was dispatched.
C12_ReturnsAfterAllUnits ==
    (pc \in {"put", "returned"} /\ obs.rlimit = "raised") =>
        /\ \A i \in DOMAIN wk : wk[i].pc = "done"
        /\ Len(wk) = Len(SelectSeq(ScanLines(raw), NonBlank))

\* List() returned after a unit of work that failed was followed by units
\* that ran to their end, one of them with an entry.
C12_Witness ==
    /\ pc = "returned"
    /\ obs.rlimit = "raised"
    /\ Len(wk) = 3
    /\ wk[1].pc = "done" /\ wk[1].ip = <<>>
    /\ wk[2].pc = "done" /\ wk[2].ip # <<>>
    /\ wk[3].pc = "done"

\* The tokens of a line, as parseProxyLine takes them.
Tokens(line) == Split(TrimSpace(line), ":")

\* host:port or host:port:user:pass with a host and a port that is a number.
WellFormedLine(line) ==
    /\ Len(Tokens(line)) \in {2, 4}
    /\ Tokens(line)[1] # <<>>
    /\ ValidPort(Tokens(line)[2])

\* C13: for every line a worker has parsed: a well-formed line of 2 or 4
\* tokens gives a URL whose host:port is that of the line and whose userinfo
\* is the user and password of a 4-token line, and that URL is what the worker
\* goes on to probe through; a line of any other token count gives no URL but
\* an error that names the line, and its worker ends without an entry.
C13_ParserContract ==
    \A i \in DOMAIN wk : wk[i].pc # "parse" =>
        LET line == wk[i].line
            s == Tokens(line)
            p == parseLineUrl(line)
        IN /\ WellFormedLine(line) =>
                /\ p.err = NoErr
                /\ p.u.Scheme = "http"
                /\ p.u.Host = s[1] \o <<":">> \o s[2]
                /\ p.u.User = (IF Len(s) = 4 THEN s[3] \o <<":">> \o s[4] ELSE <<>>)
                /\ wk[i].pc = "probe" => wk[i].u = p.u
           /\ Len(s) \notin {2, 4} =>
                /\ p.u = Nil
                /\ p.err.kind = "parse"
                /\ p.err.err = <<"invalid proxy line ", line>>
                /\ wk[i].pc = "done" /\ wk[i].ip = <<>>

\* The fetch of the raw list of the current call ended on a transport error
\* or on an HTTP error status.
FetchFailed ==
    /\ obs.fetched
    /\ ~LastAnswer.net \/ LastAnswer.status >= StatusBadRequest

\* C14: when the fetch of the raw list fails, List() has returned the error
\* of the fetch and no map, and has done nothing else: the limits were not
\* raised, no line was read or dispatched, no probe was issued, the cache
\* write was not attempted and the client's map is as it was before the call.
C14_FetchFailureAborts ==
    FetchFailed =>
        /\ pc = "returned"
        /\ ret.m = Nil
        /\ ret.err = (IF LastAnswer.net THEN formatError(LastAnswer) ELSE ErrNet)
        /\ obs.rlimit = "none"
        /\ raw = <<>> /\ pos = 0 /\ wk = <<>>
        /\ obs.probes = 0
        /\ obs.puts = 0 /\ ~obs.wrote
        /\ proxies = obs.before

\* The second call of a client found the empty list that its first call had
\* written to the cache, fetched again, and the fetch ended on an HTTP error
\* status; the cache entry is still the one of the first call.
C14_Witness ==
    /\ FetchFailed
    /\ LastAnswer.net
    /\ calls = 2
    /\ obs.hit
    /\ cache.present /\ ~cache.expired

\* The fetch of the raw list of the current call succeeded: the source
\* answered with a status below 400 and the body was read.
FetchSucceeded == obs.fetched /\ ~FetchFailed /\ ret.err # ErrRead

\* The current call of List() is over.
CallEnded == pc \in {"returned", "panicked"}

\* C15, as stated: every call of List() that fetched the raw list with
\* success has, when it is over, attempted the cache write exactly once.
C15_WriteAfterEveryFetch ==
    (FetchSucceeded /\ CallEnded) => obs.puts = 1

\* C15, amended: a call of List() attempts the cache write at most once, and
\* only after it raised the resource limits and all its units of work have
\* ended; a call that raised the limits has, when it has returned, attempted
\* the write exactly once, whatever the size of the map; after a write that
\* succeeded the cache entry holds exactly the keys of the returned map, and
\* after a write that failed List() has returned the error and no map.
C15_CacheWrittenOnce ==
    /\ obs.puts <= 1
    /\ obs.puts = 1 =>
            /\ pc = "returned"
            /\ obs.rlimit = "raised"
            /\ \A i \in DOMAIN wk : wk[i].pc = "done"
    /\ (pc = "returned" /\ obs.rlimit = "raised") =>
            /\ obs.puts = 1
            /\ obs.wrote =>
                    /\ ret.err = NoErr
                    /\ cache.present
                    /\ DOMAIN cache.data = DOMAIN ret.m
            /\ ~obs.wrote => ret = [m |-> Nil, err |-> ErrPut]

\* A call whose lines all failed has written the empty map to the cache and
\* returned it.
C15_Witness ==
    /\ pc = "returned"
    /\ obs.rlimit = "raised"
    /\ Len(wk) >= 2
    /\ obs.puts = 1 /\ obs.wrote
    /\ ret.err = NoErr /\ MapLen(ret.m) = 0
    /\ cache.present /\ DOMAIN cache.data = {}

\* C16: in every state the worker that holds the mutex of the map is at its
\* insert, and a worker that is parsing, probing, waiting for the mutex or
\* done does not hold it; the mutex is free, held by Total() or held by one
\* worker.
C16_LockOnlyAroundInsert ==
    /\ mu \in {0, -1} \cup DOMAIN wk
    /\ \A i \in DOMAIN wk : mu = i <=> wk[i].pc = "insert"

\* A worker holds the mutex for its insert while the probes of all the other
\* slots of the pool are in flight.
C16_Witness ==
    /\ mu \in DOMAIN wk
    /\ wk[mu].pc = "insert"
    /\ Cardinality(InFlight) = PoolCeil - 1
    /\ InFlight # {}

\* The workers of the current call that went on to the insert with an IP.
Inserters == {i \in DOMAIN wk : wk[i].ip # <<>>}

\* C17: a worker goes on to the insert only with a probe response of status
\* exactly 200 whose trimmed body is a valid IP literal; its key is that
\* trimmed body and its value the URL parsed from its own line; and on the
\* fetch path every entry of the map is the key and value of such a worker
\* that has made its insert.
C17_EntriesFromValidProbes ==
    /\ \A i \in Inserters :
            /\ wk[i].resp # Nil
            /\ wk[i].resp.status = StatusOK
            /\ IsValidIp(TrimSpace(wk[i].resp.body))
            /\ wk[i].ip = TrimSpace(wk[i].resp.body)
            /\ wk[i].u = parseLineUrl(wk[i].line).u
            /\ wk[i].u # Nil
    /\ \A i \in DOMAIN wk \ Inserters : wk[i].pc \notin {"lock", "insert"}
    /\ obs.rlimit = "raised" =>
            \A ip \in DOMAIN proxies :
                \E i \in Inserters : /\ wk[i].pc = "done"
                                     /\ wk[i].ip = ip
                                     /\ proxies[ip] = wk[i].u

\* The map holds an entry whose key came from a body with a trailing newline,
\* and a line that was probed ended without an entry.
C17_Witness ==
    /\ obs.rlimit = "raised"
    /\ \E i \in Inserters :
            /\ wk[i].pc = "done"
            /\ wk[i].resp.body # wk[i].ip
            /\ wk[i].ip \in DOMAIN proxies
    /\ \E i \in DOMAIN wk \ Inserters :
            wk[i].pc = "done" /\ parseLineUrl(wk[i].line).err = NoErr

\* C18: under the fairness of FairSpec, a call of List() that has fetched the
\* raw list eventually returns, every line given to the pool is eventually
\* processed to its end, and a mutex that is held is eventually free.
C18_BatchCompletes ==
    /\ (pc = "rlimit") ~> (pc = "returned")
    /\ \A i \in 1..MaxLines : (i \in DOMAIN wk) ~> (i \in DOMAIN wk /\ wk[i].pc = "done")
    /\ (mu # 0) ~> (mu = 0)

\* The same from the start of the scan loop, that is once the resource limits
\* have been raised.
C18_CompletesOnceStarted ==
    /\ (pc = "scan") ~> (pc = "returned")
    /\ \A i \in 1..MaxLines : (i \in DOMAIN wk) ~> (i \in DOMAIN wk /\ wk[i].pc = "done")
    /\ (mu # 0) ~> (mu = 0)

\* The lines the scan loop has passed, blank ones left out.
ScannedNonBlank == SelectSeq(SubSeq(ScanLines(raw), 1, pos), NonBlank)

\* C19: the units of work given to the pool are, in order, the lines the
\* scan loop has passed that are not blank, one unit each, and the line of a
\* unit never changes: a blank line gives no unit, a line that is not blank
\* gives exactly one, and a worker keeps the line it was dispatched with
\* whatever the loop variable holds later.
C19_DispatchedOnceByValue ==
    /\ (pc \in {"scan", "wait", "put", "returned"} /\ obs.rlimit = "raised") =>
            /\ Len(wk) = Len(ScannedNonBlank)
            /\ \A i \in DOMAIN wk : wk[i].line = ScannedNonBlank[i]
            /\ \A i \in DOMAIN wk : wk[i].line # Blank
    /\ (pc \in {"wait", "put", "returned"} /\ obs.rlimit = "raised") =>
            pos = Len(ScanLines(raw))

\* The scan loop has skipped a blank line and has overwritten its loop
\* variable with a later line while the worker of an earlier line has not
\* yet parsed it.
C19_Witness ==
    /\ pc = "scan"
    /\ Len(wk) < pos
    /\ \E i \in DOMAIN wk : wk[i].pc = "parse" /\ wk[i].line # l /\ l # Blank

\* The workers of the current call that have made their insert under ip.
InsertedUnder(ip) == {i \in DOMAIN wk : wk[i].pc = "done" /\ wk[i].ip = ip}

\* A worker makes its insert in this step.
Inserts(i) == i \in DOMAIN wk /\ wk[i].pc = "insert" /\ wk'[i].pc = "done"

\* Once all units of work have ended the map holds one entry for each IP
\* observed, with the endpoint of one of the lines that observed it.
OneEntryPerObservedIp ==
    (pc \in {"put", "returned"} /\ obs.rlimit = "raised") =>
        /\ MapLen(proxies) = Cardinality({wk[i].ip : i \in Inserters})
        /\ MapLen(proxies) <= Cardinality(Inserters)
        /\ \A ip \in DOMAIN proxies :
                \E i \in InsertedUnder(ip) : proxies[ip] = wk[i].u

\* C20: every insert leaves the map with the entry of the inserting worker
\* under its IP and with all other entries as they were, so that of several
\* workers with the same IP the last one to insert decides the entry; and
\* every step leads to a state where, once all units of work have ended, the
\* map holds one entry for each IP observed, fewer than there are successful
\* lines when two of them observed the same IP, with the endpoint of one of
\* the lines that observed it.
C20_OneEntryPerIp ==
    [][/\ \A i \in 1..MaxLines : Inserts(i) =>
            /\ DOMAIN proxies' = DOMAIN proxies \cup {wk[i].ip}
            /\ proxies'[wk[i].ip] = wk[i].u
            /\ \A ip \in DOMAIN proxies \ {wk[i].ip} : proxies'[ip] = proxies[ip]
       /\ OneEntryPerObservedIp']_vars

\* Two lines with different endpoints were probed with the same IP, and the
\* map List() returned holds one entry.
C20_Witness ==
    /\ pc = "returned"
    /\ obs.rlimit = "raised"
    /\ ret.err = NoErr
    /\ MapLen(ret.m) = 1
    /\ \E i, j \in Inserters : /\ i # j
                                /\ wk[i].ip = wk[j].ip
                                /\ wk[i].u # wk[j].u

====
